---- MODULE Spec2Model ----
(***************************************************************************)
(* A model of cache-metrics-exporter.py: the Prometheus exporter that      *)
(* samples the nginx cache containers, the physical disks and the          *)
(* containers' network counters, and publishes them as gauges.             *)
(*                                                                         *)
(* Spec        the main loop (main, update_metrics) with the metrics       *)
(*             registry, one action per sampler-and-publish block of       *)
(*             update_metrics, a concurrent scrape and external kill.      *)
(* LiveSpec    Spec with the fairness of the loop's own steps.             *)
(* SamplerSpec get_docker_cache_stats alone, one action per shell command. *)
(*                                                                         *)
(* Gauge values are floats in the program; here a value is the exact       *)
(* number num * 2^exp / den.                                               *)
(***************************************************************************)
EXTENDS Integers, Sequences, FiniteSets, TLC

VARIABLES
    pc,          \* main: "start", "disk", "net", "logok", "except", "sleep", "killed", "crashed"
    registry,    \* the gauges' labelled series: series key -> value
    totals,      \* update_metrics: total_cache_used, total_hits, total_misses
    containers,  \* what docker ps listed in this turn of the loop
    env,         \* what each listed container's commands answered in this turn
    sampled,     \* the samplers that have returned in the latest cycle
    written,     \* the series the latest cycle has set so far
    completed,   \* some call of update_metrics has returned
    log,         \* the last line main printed
    scraped,     \* what a scrape answered at this point of the loop held
    spc,         \* get_docker_cache_stats: position
    listing,     \* get_docker_cache_stats: containers
    idx,         \* get_docker_cache_stats: index of the container in the for loop
    loc,         \* get_docker_cache_stats: the try block's local variables, and
                 \* skipped: a command of this container exited non-zero
    stats,       \* get_docker_cache_stats: stats
    faults       \* per node name, whether its last sampling skipped a command
                 \* that exited non-zero, and whether an int() raised in it

vars == <<pc, registry, totals, containers, env, sampled, written, completed,
          log, scraped, spc, listing, idx, loc, stats, faults>>

mainVars == <<pc, registry, totals, containers, env, sampled, written,
              completed, log, scraped>>

samplerVars == <<spc, listing, idx, loc, stats, faults>>

-----------------------------------------------------------------------------
(* Bounds and program constants *)

\* range(1, 5): the configured node ordinals
NumNodes == 4

\* disk_mounts: disk1..disk4
NumDisks == 4

\* the most containers docker ps lists in one cycle
MaxListed == 2

\* the containers that may be running, as <<node number, replica>>:
\* tc-nginx-nginx-cache-<node>-<replica>.  Node 5 is outside range(1, 5).
Containers == {<<1, 1>>, <<1, 2>>, <<2, 1>>, <<5, 1>>}

-----------------------------------------------------------------------------
(* Values *)

Val(n, d, e) == [num |-> n, den |-> d, exp |-> e]

IntVal(n) == Val(n, 1, 0)

Zero == IntVal(0)

\* command output: a decimal number, other text, or nothing
Num(n) == [kind |-> "number", val |-> n]

Text == [kind |-> "text", val |-> 0]

Empty == [kind |-> "empty", val |-> 0]

Lines(n, v) == [i \in 1..n |-> Num(v)]

\* /cache/disk1 .. /cache/disk<n>
SlotLines(n) == [i \in 1..n |-> Num(i)]

-----------------------------------------------------------------------------
(* get_docker_cache_stats: the steps of the try block *)

\* container.split('nginx-cache-')[1].split('-')[0]
NodeOf(container) == container[1]

\* docker ps ... | sort
Rank(container) == container[1] * 10 + container[2]

RECURSIVE SortedSeq(_)
SortedSeq(S) ==
    IF S = {} THEN <<>>
    ELSE LET m == CHOOSE x \in S : \A y \in S : Rank(x) <= Rank(y)
         IN  <<m>> \o SortedSeq(S \ {m})

Listings == {SortedSeq(S) : S \in {T \in SUBSET Containers : Cardinality(T) <= MaxListed}}

ZeroRecord == [cache_size |-> 0, object_count |-> 0, hits |-> 0, misses |-> 0]

\* ls -d /cache/disk*: the numbered slots among the lines of a successful listing
RECURSIVE DigitLines(_)
DigitLines(lines) ==
    IF lines = <<>> THEN <<>>
    ELSE IF Head(lines).kind = "number"
         THEN <<Head(lines).val>> \o DigitLines(Tail(lines))
         ELSE DigitLines(Tail(lines))

ParseLs(r) == IF r.rc = 0 /\ r.lines # <<>> THEN DigitLines(r.lines) ELSE <<>>

DefaultDisks == <<1, 2, 3, 4>>

DisksToCheck(available_disks) ==
    IF available_disks # <<>> THEN available_disks ELSE DefaultDisks

\* du -sb: a failed or silent command is skipped, int() of other text raises
DuStep(cache_size, r) ==
    IF r.rc = 0 /\ r.out.kind # "empty"
    THEN IF r.out.kind = "number"
         THEN [raised |-> FALSE, value |-> cache_size + r.out.val]
         ELSE [raised |-> TRUE, value |-> cache_size]
    ELSE [raised |-> FALSE, value |-> cache_size]

\* find ... | wc -l: a failed command is skipped, int() of anything else raises
FindStep(object_count, r) ==
    IF r.rc = 0
    THEN IF r.out.kind = "number"
         THEN [raised |-> FALSE, value |-> object_count + r.out.val]
         ELSE [raised |-> TRUE, value |-> object_count]
    ELSE [raised |-> FALSE, value |-> object_count]

\* docker logs --tail 1000 | grep CacheStatus: the lines carrying one marker
RECURSIVE CountMarker(_, _)
CountMarker(lines, marker) ==
    IF lines = <<>> THEN 0
    ELSE (IF Head(lines) = marker THEN 1 ELSE 0) + CountMarker(Tail(lines), marker)

CountLog(r, marker) ==
    IF r.rc = 0 /\ r.lines # <<>> THEN CountMarker(r.lines, marker) ELSE 0

\* the loop over disks_to_check from disk k on; acc holds cache_size and
\* object_count, and raised once an int() has failed
RECURSIVE SumDisks(_, _, _, _)
SumDisks(o, disks, k, acc) ==
    IF k > Len(disks) THEN acc
    ELSE LET du == DuStep(acc.cache_size, o.du[disks[k]])
         IN  IF du.raised THEN [acc EXCEPT !.raised = TRUE]
             ELSE LET fi == FindStep(acc.object_count, o.find[disks[k]])
                  IN  IF fi.raised THEN [acc EXCEPT !.raised = TRUE]
                      ELSE SumDisks(o, disks, k + 1,
                                    [raised |-> FALSE, cache_size |-> du.value,
                                     object_count |-> fi.value])

\* the try block for one container whose commands answer as o says
SampleContainer(o) ==
    LET disks == DisksToCheck(ParseLs(o.ls))
        acc == SumDisks(o, disks, 1,
                        [raised |-> FALSE, cache_size |-> 0, object_count |-> 0])
    IN  IF acc.raised THEN ZeroRecord
        ELSE [cache_size |-> acc.cache_size, object_count |-> acc.object_count,
              hits |-> CountLog(o.logs, "HIT"), misses |-> CountLog(o.logs, "MISS")]

\* faulty variant: the try encloses the for loop, so the first raise ends the sampling
RECURSIVE SampleFromStopping(_, _, _, _)
SampleFromStopping(cs, e, i, st) ==
    IF i > Len(cs) THEN st
    ELSE IF SumDisks(e[cs[i]], DisksToCheck(ParseLs(e[cs[i]].ls)), 1,
                     [raised |-> FALSE, cache_size |-> 0, object_count |-> 0]).raised
         THEN (NodeOf(cs[i]) :> ZeroRecord) @@ st
         ELSE SampleFromStopping(cs, e, i + 1,
                                 (NodeOf(cs[i]) :> SampleContainer(e[cs[i]])) @@ st)

\* the for loop over containers from index i on
RECURSIVE SampleFrom(_, _, _, _)
SampleFrom(cs, e, i, st) ==
    IF i > Len(cs) THEN st
    ELSE SampleFrom(cs, e, i + 1, (NodeOf(cs[i]) :> SampleContainer(e[cs[i]])) @@ st)

get_docker_cache_stats(cs, e) == SampleFrom(cs, e, 1, <<>>)

-----------------------------------------------------------------------------
(* What a container's commands may answer in a cycle of the main loop *)

Ok(out) == [rc |-> 0, out |-> out]

Failed == [rc |-> 1, out |-> Empty]

\* no command reaches the container: docker exec fails, and the pipelines
\* end in wc -l (which prints 0) and in grep (which matches nothing)
Unreachable ==
    [ls   |-> [rc |-> 1, lines |-> <<>>],
     du   |-> [d \in 1..4 |-> Failed],
     find |-> [d \in 1..4 |-> Ok(Num(0))],
     logs |-> [rc |-> 1, lines |-> <<>>]]

\* one slot, one object, a hit in the log
HitOnly ==
    [ls   |-> [rc |-> 0, lines |-> <<Num(1)>>],
     du   |-> [d \in 1..4 |-> Ok(Num(1))],
     find |-> [d \in 1..4 |-> Ok(Num(1))],
     logs |-> [rc |-> 0, lines |-> <<"HIT">>]]

\* two slots, the second one's du fails, only misses in the log
MissOnly ==
    [ls   |-> [rc |-> 0, lines |-> <<Num(1), Text, Num(2)>>],
     du   |-> [d \in 1..4 |-> IF d = 2 THEN Failed ELSE Ok(Num(2))],
     find |-> [d \in 1..4 |-> Ok(Num(1))],
     logs |-> [rc |-> 0, lines |-> <<"MISS", "OTHER">>]]

\* the file count is not a number
Garbled ==
    [ls   |-> [rc |-> 0, lines |-> <<Num(1)>>],
     du   |-> [d \in 1..4 |-> Ok(Num(1))],
     find |-> [d \in 1..4 |-> Ok(Text)],
     logs |-> [rc |-> 0, lines |-> <<"HIT", "MISS">>]]

ContainerEnvs == {Unreachable, HitOnly, MissOnly, Garbled}

SetOf(seq) == {seq[i] : i \in 1..Len(seq)}

-----------------------------------------------------------------------------
(* update_metrics: what each block writes *)

NodeMetrics ==
    {"object_count", "used_bytes", "total_bytes", "usage_percent",
     "hits", "misses", "hit_ratio"}

NetMetrics == {"rx_bytes", "tx_bytes", "rx_packets", "tx_packets"}

\* a series: <<metric, scope, id>>.  scope "cache": node=nginx-cache-<id>
\* (disk='cache' where the gauge has a disk label); "physical": node='physical',
\* disk=disk<id>; "all": node='all' (disk='total'); "iface":
\* interface=nginx-cache-<id>
NodeKeys(nodes) == {<<m, "cache", n>> : m \in NodeMetrics, n \in nodes}

\* 10 * 1024 * 1024 * 1024
NodeCapacity == Val(10, 1, 30)

\* faulty variant: the ratio of the misses
HitRatioOfMisses(hits, misses) ==
    IF hits + misses > 0 THEN Val(misses * 100, hits + misses, 0) ELSE Zero

\* (hits / (hits + misses) * 100) if (hits + misses) > 0 else 0
HitRatio(hits, misses) ==
    IF hits + misses > 0 THEN Val(hits * 100, hits + misses, 0) ELSE Zero

\* (cache_size / (10 * 1024 * 1024 * 1024) * 100) if cache_size > 0 else 0
NodeUsagePercent(cache_size) ==
    IF cache_size > 0 THEN Val(cache_size * 100, 10, -30) ELSE Zero

\* the update loop's gauge for one node that is in docker_stats
NodeValue(metric, s) ==
    CASE metric = "object_count"  -> IntVal(s.object_count)
      [] metric = "used_bytes"    -> IntVal(s.cache_size)
      [] metric = "total_bytes"   -> NodeCapacity
      [] metric = "usage_percent" -> NodeUsagePercent(s.cache_size)
      [] metric = "hits"          -> IntVal(s.hits)
      [] metric = "misses"        -> IntVal(s.misses)
      [] metric = "hit_ratio"     -> HitRatio(s.hits, s.misses)

\* faulty variant: the zero fill stops one node short, range(1, 4)
ZeroFilledShort(docker_stats) == (1..(NumNodes - 1)) \ DOMAIN docker_stats

\* for i in range(1, 5): if node_name not in docker_stats: ... .set(0)
ZeroFilled(docker_stats) == (1..NumNodes) \ DOMAIN docker_stats

\* faulty variant: the zero fill sets the ceiling as the update loop does
ZeroFillsCeiling(docker_stats) ==
    [k \in NodeKeys(ZeroFilled(docker_stats)) |->
        IF k[1] = "total_bytes" THEN NodeCapacity ELSE Zero]

ZeroFills(docker_stats) ==
    [k \in NodeKeys(ZeroFilled(docker_stats)) |-> Zero]

\* for node_name, stats in docker_stats.items(): ... .set(...)
UpdateNodes(docker_stats) ==
    [k \in NodeKeys(DOMAIN docker_stats) |-> NodeValue(k[1], docker_stats[k[3]])]

\* total_cache_used += ..., total_hits += ..., total_misses += ...
RECURSIVE SumField(_, _, _)
SumField(docker_stats, nodes, field) ==
    IF nodes = {} THEN 0
    ELSE LET n == CHOOSE x \in nodes : TRUE
         IN  docker_stats[n][field] + SumField(docker_stats, nodes \ {n}, field)

\* faulty variant: the totals are accumulated over range(1, 5) only
AccumulateConfigured(docker_stats) ==
    [used   |-> SumField(docker_stats, DOMAIN docker_stats \cap (1..NumNodes), "cache_size"),
     hits   |-> SumField(docker_stats, DOMAIN docker_stats \cap (1..NumNodes), "hits"),
     misses |-> SumField(docker_stats, DOMAIN docker_stats \cap (1..NumNodes), "misses")]

Accumulate(docker_stats) ==
    [used   |-> SumField(docker_stats, DOMAIN docker_stats, "cache_size"),
     hits   |-> SumField(docker_stats, DOMAIN docker_stats, "hits"),
     misses |-> SumField(docker_stats, DOMAIN docker_stats, "misses")]

-----------------------------------------------------------------------------
(* get_disk_stats *)

ZeroDisk == [total |-> 0, used |-> 0, percent |-> Zero]

\* df -B1 <mount> | tail -n1: parts = stdout.split(); the except clause and
\* both else branches give the zero record
DiskRecord(r) ==
    IF r.rc = 0 /\ Len(r.parts) >= 4
       /\ \A i \in 2..4 : r.parts[i].kind = "number"
    THEN [total   |-> r.parts[2].val,
          used    |-> r.parts[3].val,
          percent |-> IF r.parts[2].val > 0
                      THEN Val(r.parts[3].val * 100, r.parts[2].val, 0)
                      ELSE Zero]
    ELSE ZeroDisk

get_disk_stats(df) == [d \in 1..NumDisks |-> DiskRecord(df[d])]

RECURSIVE SumDisk(_, _, _)
SumDisk(disk_stats, disks, field) ==
    IF disks = {} THEN 0
    ELSE LET d == CHOOSE x \in disks : TRUE
         IN  disk_stats[d][field] + SumDisk(disk_stats, disks \ {d}, field)

DiskKeys == {<<m, "physical", d>> : m \in {"used_bytes", "total_bytes", "usage_percent"},
                                    d \in 1..NumDisks}

\* for disk_name, stats in disk_stats.items(): ... .set(...)
UpdateDisks(disk_stats) ==
    [k \in DiskKeys |->
        CASE k[1] = "used_bytes"    -> IntVal(disk_stats[k[3]].used)
          [] k[1] = "total_bytes"   -> IntVal(disk_stats[k[3]].total)
          [] k[1] = "usage_percent" -> disk_stats[k[3]].percent]

AllKeys == {<<"used_bytes", "all", 0>>, <<"total_bytes", "all", 0>>,
            <<"usage_percent", "all", 0>>, <<"hits", "all", 0>>,
            <<"misses", "all", 0>>, <<"hit_ratio", "all", 0>>}

\* the node='all' series: container cache used against physical capacity
UpdateAll(t, total_physical_capacity) ==
    [k \in AllKeys |->
        CASE k[1] = "used_bytes"    -> IntVal(t.used)
          [] k[1] = "total_bytes"   -> IntVal(total_physical_capacity)
          [] k[1] = "usage_percent" ->
                IF total_physical_capacity > 0
                THEN Val(t.used * 100, total_physical_capacity, 0) ELSE Zero
          [] k[1] = "hits"          -> IntVal(t.hits)
          [] k[1] = "misses"        -> IntVal(t.misses)
          [] k[1] = "hit_ratio"     -> HitRatio(t.hits, t.misses)]

\* what df answers for a mount: nothing (no such mount), a data line
\* "<device> <total> <used> <available> <use%> <mount>", a line that is no
\* data line, or a failed pipeline
DfResults ==
    {[rc |-> 0, parts |-> <<>>],
     [rc |-> 0, parts |-> <<Text, Num(4), Num(1), Num(3), Text, Text>>],
     [rc |-> 0, parts |-> <<Text, Text, Text, Text, Text, Text>>],
     [rc |-> 1, parts |-> <<>>]}

-----------------------------------------------------------------------------
(* get_network_stats *)

ZeroNet == [rx_bytes |-> 0, rx_packets |-> 0, tx_bytes |-> 0, tx_packets |-> 0]

\* cat /proc/net/dev | grep eth0: parts are the fields after the colon;
\* parts[9] of a line of nine fields and int() of text raise into the except
\* clause
NetRecord(r) ==
    IF r.rc = 0 /\ r.parts # <<>> /\ r.colon /\ Len(r.parts) >= 9
       /\ Len(r.parts) >= 10
       /\ \A i \in {1, 2, 9, 10} : r.parts[i].kind = "number"
    THEN [rx_bytes   |-> r.parts[1].val, rx_packets |-> r.parts[2].val,
          tx_bytes   |-> r.parts[9].val, tx_packets |-> r.parts[10].val]
    ELSE ZeroNet

get_network_stats(net) == [n \in 1..NumNodes |-> NetRecord(net[n])]

NetKeys == {<<m, "iface", n>> : m \in NetMetrics, n \in 1..NumNodes}

\* for iface, stats in net_stats.items(): ... .set(...)
UpdateNet(net_stats) == [k \in NetKeys |-> IntVal(net_stats[k[3]][k[1]])]

\* what the eth0 line of a container may be: none (container down), the
\* kernel's sixteen counters, or a line cut after nine
NetResults ==
    {[rc |-> 1, colon |-> FALSE, parts |-> <<>>],
     [rc |-> 0, colon |-> TRUE, parts |-> Lines(16, 1)],
     [rc |-> 0, colon |-> TRUE, parts |-> Lines(9, 1)]}

-----------------------------------------------------------------------------
(* main and update_metrics *)

Samplers == {"cache", "disk", "net"}

NoScrape == [seen |-> FALSE, running |-> FALSE, fresh |-> FALSE, stale |-> FALSE]

\* the try block's locals before the first command of a container
NoLocals ==
    [node_name |-> 0, cache_size |-> 0, object_count |-> 0,
     disks_to_check |-> <<>>, k |-> 0, skipped |-> FALSE]

SamplerOff ==
    /\ spc = "off"
    /\ listing = <<>>
    /\ idx = 0
    /\ loc = NoLocals
    /\ stats = <<>>
    /\ faults = <<>>

Init ==
    /\ pc = "start"
    /\ registry = <<>>
    /\ totals = [used |-> 0, hits |-> 0, misses |-> 0]
    /\ containers = <<>>
    /\ env = <<>>
    /\ sampled = {}
    /\ written = {}
    /\ completed = FALSE
    /\ log = "started"
    /\ scraped = NoScrape
    /\ SamplerOff

\* faulty variant: the call of update_metrics is not in a try
Uncaught == "crashed"

\* except Exception as e: where an exception out of update_metrics lands
CatchTarget == "except"

\* one run of get_docker_cache_stats, with what the zero fill and the update
\* loop then set and accumulate
CacheCycle(cs, e) ==
    LET docker_stats == get_docker_cache_stats(cs, e)
    IN  [containers |-> cs,
         env        |-> e,
         totals     |-> Accumulate(docker_stats),
         writes     |-> UpdateNodes(docker_stats) @@ ZeroFills(docker_stats)]

\* the runs the bounds allow: a listing, and an answer for each container
CacheCycles ==
    {CacheCycle(cs, e) : <<cs, e>> \in
        UNION {{<<l, f>> : f \in [SetOf(l) -> ContainerEnvs]} : l \in Listings}}

\* update_metrics up to the end of the update loop: get_docker_cache_stats(),
\* the zero fill for the nodes it did not return, the per-node gauges
UpdateCache ==
    /\ pc = "start"
    /\ \E c \in CacheCycles :
         /\ containers' = c.containers
         /\ env' = c.env
         /\ totals' = c.totals
         /\ registry' = c.writes @@ registry
         /\ written' = DOMAIN c.writes
    /\ sampled' = {"cache"}
    /\ pc' = "disk"
    /\ scraped' = NoScrape
    /\ UNCHANGED <<completed, log>>
    /\ UNCHANGED samplerVars

\* subprocess.run of docker ps raises (the shell cannot be started): the
\* call is outside every try of update_metrics, which has set nothing yet
UpdateRaises ==
    /\ pc = "start"
    /\ pc' = CatchTarget
    /\ containers' = <<>>
    /\ env' = <<>>
    /\ sampled' = {}
    /\ written' = {}
    /\ scraped' = NoScrape
    /\ UNCHANGED <<registry, totals, completed, log>>
    /\ UNCHANGED samplerVars

\* every run of get_disk_stats the bounds allow (every mount answers alike)
DiskRuns == {get_disk_stats([d \in 1..NumDisks |-> r]) : r \in DfResults}

\* get_disk_stats(), the physical gauges, the node='all' gauges
UpdateDisk ==
    /\ pc = "disk"
    /\ \E disk_stats \in DiskRuns :
         LET w == UpdateAll(totals, SumDisk(disk_stats, 1..NumDisks, "total"))
                  @@ UpdateDisks(disk_stats)
         IN  /\ registry' = w @@ registry
             /\ written' = written \cup DOMAIN w
    /\ sampled' = sampled \cup {"disk"}
    /\ pc' = "net"
    /\ scraped' = NoScrape
    /\ UNCHANGED <<totals, containers, env, completed, log>>
    /\ UNCHANGED samplerVars

\* every run of get_network_stats the bounds allow (every container answers
\* alike), with the interface gauges it sets
NetRuns == {UpdateNet(get_network_stats([n \in 1..NumNodes |-> r])) : r \in NetResults}

\* get_network_stats() and the interface gauges, after which update_metrics
\* returns
UpdateNetwork ==
    /\ pc = "net"
    /\ \E w \in NetRuns :
         /\ registry' = w @@ registry
         /\ written' = written \cup DOMAIN w
    /\ sampled' = sampled \cup {"net"}
    /\ completed' = TRUE
    /\ pc' = "logok"
    /\ scraped' = NoScrape
    /\ UNCHANGED <<totals, containers, env, log>>
    /\ UNCHANGED samplerVars

\* print(f"Metrics updated at ...")
LogUpdated ==
    /\ pc = "logok"
    /\ log' = "updated"
    /\ pc' = "sleep"
    /\ scraped' = NoScrape
    /\ UNCHANGED <<registry, totals, containers, env, sampled, written, completed>>
    /\ UNCHANGED samplerVars

\* print(f"Error updating metrics: {e}")
LogError ==
    /\ pc = "except"
    /\ log' = "error"
    /\ pc' = "sleep"
    /\ scraped' = NoScrape
    /\ UNCHANGED <<registry, totals, containers, env, sampled, written, completed>>
    /\ UNCHANGED samplerVars

\* time.sleep(30), then the next turn of while True
Sleep ==
    /\ pc = "sleep"
    /\ pc' = "start"
    /\ containers' = <<>>
    /\ env' = <<>>
    /\ scraped' = NoScrape
    /\ UNCHANGED <<registry, totals, sampled, written, completed, log>>
    /\ UNCHANGED samplerVars

\* the process is ended from outside (a signal); nothing of it is left
Terminate ==
    /\ pc \notin {"killed", "crashed"}
    /\ pc' = "killed"
    /\ registry' = <<>>
    /\ totals' = [used |-> 0, hits |-> 0, misses |-> 0]
    /\ containers' = <<>>
    /\ env' = <<>>
    /\ sampled' = {}
    /\ written' = {}
    /\ completed' = FALSE
    /\ scraped' = NoScrape
    /\ UNCHANGED log
    /\ UNCHANGED samplerVars

\* the HTTP thread of start_http_server(9199) answers a scrape with the
\* series the gauges hold at that moment: running, update_metrics is between
\* two of its blocks; fresh, some series was set by the latest cycle; stale,
\* some series was last set by an earlier one
Scrape ==
    /\ pc \notin {"killed", "crashed"}
    /\ scraped' = [seen    |-> TRUE,
                   running |-> pc \in {"disk", "net"},
                   fresh   |-> DOMAIN registry \cap written # {},
                   stale   |-> DOMAIN registry \ written # {}]
    /\ UNCHANGED <<pc, registry, totals, containers, env, sampled, written, completed, log>>
    /\ UNCHANGED samplerVars

Next ==
    \/ UpdateCache
    \/ UpdateRaises
    \/ UpdateDisk
    \/ UpdateNetwork
    \/ LogUpdated
    \/ LogError
    \/ Sleep
    \/ Terminate
    \/ Scrape

Spec == Init /\ [][Next]_vars

\* the loop's own steps always come to run; nothing promises that an
\* external command returns, and nothing that the process is ever killed
LiveSpec ==
    Spec /\ WF_vars(LogUpdated) /\ WF_vars(LogError) /\ WF_vars(Sleep)

-----------------------------------------------------------------------------
(* The claims on the main loop *)

IsZero(v) == v.num = 0

Configured == 1..NumNodes

\* the latest call of update_metrics has returned
CycleDone == sampled = Samplers

\* the update loop of the cycle in progress has run and its inputs are known
NodesPublished == "cache" \in sampled /\ pc \in {"disk", "net", "logok", "sleep"}

NoData(i) == \A c \in SetOf(containers) : NodeOf(c) = i => env[c] = Unreachable

Listed(i) == \E c \in SetOf(containers) : NodeOf(c) = i

\* C2 as stated: a configured node that produced no data in a cycle, not
\* listed or listed but unreachable, has all seven series equal to 0 after it.
NoDataNodeAllZero ==
    NodesPublished =>
        \A i \in Configured : NoData(i) =>
            \A m \in NodeMetrics : IsZero(registry[<<m, "cache", i>>])

\* C2 amended: such a node has used bytes, usage percent, object count, hits,
\* misses and hit ratio equal to 0; its total bytes is 0 when it is not listed
\* and the 10 GiB ceiling when it is listed but unreachable.
NoDataNodeZeroButCeiling ==
    NodesPublished =>
        \A i \in Configured : NoData(i) =>
            /\ \A m \in NodeMetrics \ {"total_bytes"} : IsZero(registry[<<m, "cache", i>>])
            /\ registry[<<"total_bytes", "cache", i>>] =
                   IF Listed(i) THEN NodeCapacity ELSE Zero

NoDataNodeWitness ==
    /\ pc = "logok"
    /\ \E i, j \in Configured :
         /\ Listed(i) /\ NoData(i)
         /\ ~Listed(j)
         /\ registry[<<"total_bytes", "cache", i>>] = NodeCapacity
         /\ registry[<<"total_bytes", "cache", j>>] = Zero

\* the per-node series the cycle would have set had container a answered as o
WritesIfAnswered(a, o) ==
    LET alt == get_docker_cache_stats(containers, [env EXCEPT ![a] = o])
    IN  UpdateNodes(alt) @@ ZeroFills(alt)

\* C3: what a cycle publishes for a node B is the same whatever the commands
\* of a container of another node answered, failures included.
OtherNodesUnaffected ==
    NodesPublished =>
        \A a \in SetOf(containers) : \A o \in ContainerEnvs :
            LET w == WritesIfAnswered(a, o)
            IN  \A k \in DOMAIN w : k[3] # NodeOf(a) => registry[k] = w[k]

\* one container failed (unreachable or garbled) and another node's hit is
\* published
OtherNodesUnaffectedWitness ==
    /\ pc = "disk"
    /\ \E a, b \in SetOf(containers) :
         /\ env[a] \in {Unreachable, Garbled}
         /\ NodeOf(b) # NodeOf(a)
         /\ env[b] = HitOnly
         /\ registry[<<"hits", "cache", NodeOf(b)>>] = IntVal(1)

\* C4: an exception out of update_metrics is caught and logged, the loop
\* sleeps and comes back to call update_metrics again, unless the process is
\* killed first; the process never ends by itself.
CycleFailureRetried ==
    /\ [](pc # "crashed")
    /\ (pc = "except") ~> (pc = "start" \/ pc = "killed")
    /\ [][pc = "except" /\ pc' # pc => pc' \in {"sleep", "killed"}]_vars

\* back at the head of the loop after a failed cycle was logged
CycleFailureRetriedWitness == pc = "start" /\ log = "error"

\* C5 as stated: a scrape answered while a cycle runs holds the series of one
\* cycle only, never some set by the running cycle beside some set earlier.
ScrapeSeesOneCycle ==
    scraped.seen /\ scraped.running => ~(scraped.fresh /\ scraped.stale)

RatioKeys == {k \in DOMAIN registry : k[1] = "hit_ratio"}

InPercentRange(v) == v.den > 0 /\ v.exp = 0 /\ 0 <= v.num /\ v.num <= 100 * v.den

HitsOf(k) == registry[<<"hits", k[2], k[3]>>].num

MissesOf(k) == registry[<<"misses", k[2], k[3]>>].num

\* C6 as stated: every published hit ratio is in [0, 100] and is 0 exactly
\* when hits + misses = 0.
HitRatioZeroIffNoTraffic ==
    \A k \in RatioKeys :
        /\ InPercentRange(registry[k])
        /\ IsZero(registry[k]) <=> HitsOf(k) + MissesOf(k) = 0

\* C6 amended: every published hit ratio is in [0, 100] and is 0 exactly
\* when hits = 0, which covers hits + misses = 0.
HitRatioZeroIffNoHits ==
    \A k \in RatioKeys :
        /\ InPercentRange(registry[k])
        /\ IsZero(registry[k]) <=> HitsOf(k) = 0
        /\ HitsOf(k) + MissesOf(k) = 0 => IsZero(registry[k])

\* a node with misses only at ratio 0 beside a node with hits only at 100
HitRatioWitness ==
    \E i, j \in Configured :
        /\ <<"hit_ratio", "cache", i>> \in DOMAIN registry
        /\ <<"hit_ratio", "cache", j>> \in DOMAIN registry
        /\ HitsOf(<<"hit_ratio", "cache", i>>) = 0
        /\ MissesOf(<<"hit_ratio", "cache", i>>) > 0
        /\ IsZero(registry[<<"hit_ratio", "cache", i>>])
        /\ registry[<<"hit_ratio", "cache", j>>] = Val(100, 1, 0)
        /\ <<"hit_ratio", "all", 0>> \in written

RECURSIVE SumUsed(_)
SumUsed(keys) ==
    IF keys = {} THEN 0
    ELSE LET k == CHOOSE x \in keys : TRUE
         IN  registry[k].num + SumUsed(keys \ {k})

\* the per-node used-bytes series the latest cycle set
UsedKeysWritten == {k \in written : k[1] = "used_bytes" /\ k[2] = "cache"}

\* C7: after a completed cycle the node='all' used bytes is the sum of the
\* per-node used bytes that cycle published, zero-filled nodes included.
AggregateUsedIsSum ==
    CycleDone =>
        /\ registry[<<"used_bytes", "all", 0>>] = IntVal(SumUsed(UsedKeysWritten))
        /\ NodeKeys(Configured) \subseteq written

\* two nodes with data, one of them outside 1..4, summed
AggregateUsedIsSumWitness ==
    /\ CycleDone
    /\ registry[<<"used_bytes", "all", 0>>] = IntVal(3)
    /\ \E k \in UsedKeysWritten : k[3] \notin Configured /\ registry[k] = IntVal(2)

\* C8 as stated: no series is written in a cycle before all of its samplers
\* have returned.
NoWriteBeforeAllSampled == written # {} => sampled = Samplers

\* C9 as stated: after a completed cycle every series in the registry was
\* set by that cycle; none still holds an earlier cycle's value.
NoSeriesOutlivesCycle == CycleDone => DOMAIN registry \subseteq written

-----------------------------------------------------------------------------
(* get_docker_cache_stats, one action per shell command *)

\* ls -d /cache/disk*: slots 1..k, before them possibly a path whose suffix
\* is no number; or a failed command
LsResults ==
    {[rc |-> 1, lines |-> <<>>]}
    \cup {[rc |-> 0, lines |-> SlotLines(k)] : k \in 0..2}
    \cup {[rc |-> 0, lines |-> <<Text>> \o SlotLines(k)] : k \in 0..1}

\* du -sb: fails, prints nothing, prints no number, prints a size, or prints
\* a size and exits non-zero (part of the tree unreadable)
DuResults == {Failed, Ok(Empty), Ok(Text), Ok(Num(1)), [rc |-> 1, out |-> Num(1)]}

\* find | wc -l: a count, or nothing, or no number, or a failed pipeline
FindResults == {Ok(Num(0)), Ok(Num(1)), Ok(Empty), Ok(Text), Failed}

\* docker logs | grep CacheStatus: no line matched, or the matching lines
LogResults ==
    {[rc |-> 1, lines |-> <<>>], [rc |-> 0, lines |-> <<"HIT", "OTHER", "MISS">>]}

\* faulty variant: the except clause only prints
AfterRaiseLost(st, node_name) == st

\* except Exception as e: stats[node_name] = {... all 0 ...}
AfterRaise(st, node_name) == (node_name :> ZeroRecord) @@ st

NoFault == [skipped |-> FALSE, raised |-> FALSE]

SamplerInit ==
    /\ pc = "start"
    /\ registry = <<>>
    /\ totals = [used |-> 0, hits |-> 0, misses |-> 0]
    /\ containers = <<>>
    /\ env = <<>>
    /\ sampled = {}
    /\ written = {}
    /\ completed = FALSE
    /\ log = "started"
    /\ scraped = NoScrape
    /\ spc = "ps"
    /\ listing = <<>>
    /\ idx = 0
    /\ loc = NoLocals
    /\ stats = <<>>
    /\ faults = <<>>

\* stats = {}; docker ps ... | sort; containers = stdout.split('\n') or []
DockerPs ==
    /\ spc = "ps"
    /\ \E l \in Listings : listing' = l
    /\ idx' = 1
    /\ spc' = "for"
    /\ UNCHANGED <<loc, stats, faults>>
    /\ UNCHANGED mainVars

\* for container in containers: node_name; try: cache_size = 0, object_count = 0
ForContainer ==
    /\ spc = "for"
    /\ idx <= Len(listing)
    /\ loc' = [NoLocals EXCEPT !.node_name = NodeOf(listing[idx])]
    /\ spc' = "ls"
    /\ UNCHANGED <<listing, idx, stats, faults>>
    /\ UNCHANGED mainVars

\* docker exec ... ls -d /cache/disk*; available_disks; disks_to_check
ListDisks ==
    /\ spc = "ls"
    /\ \E r \in LsResults :
         loc' = [loc EXCEPT !.disks_to_check = DisksToCheck(ParseLs(r)),
                            !.k = 1,
                            !.skipped = r.rc # 0]
    /\ spc' = "du"
    /\ UNCHANGED <<listing, idx, stats, faults>>
    /\ UNCHANGED mainVars

\* an int() raised: the except clause stores the zero record and the for loop
\* goes on with the next container
Raise ==
    /\ stats' = AfterRaise(stats, loc.node_name)
    /\ faults' = (loc.node_name :> [skipped |-> loc.skipped, raised |-> TRUE]) @@ faults
    /\ idx' = idx + 1
    /\ spc' = "for"
    /\ UNCHANGED <<listing, loc>>

\* docker exec ... du -sb /cache/disk{disk}
DiskUsage ==
    /\ spc = "du"
    /\ \E r \in DuResults :
         LET s == DuStep(loc.cache_size, r)
         IN  IF s.raised THEN Raise
             ELSE /\ loc' = [loc EXCEPT !.cache_size = s.value,
                                        !.skipped = @ \/ r.rc # 0]
                  /\ spc' = "find"
                  /\ UNCHANGED <<listing, idx, stats, faults>>
    /\ UNCHANGED mainVars

\* docker exec ... find /cache/disk{disk} -type f | wc -l, then the next disk
CountFiles ==
    /\ spc = "find"
    /\ \E r \in FindResults :
         LET s == FindStep(loc.object_count, r)
         IN  IF s.raised THEN Raise
             ELSE /\ loc' = [loc EXCEPT !.object_count = s.value,
                                        !.skipped = @ \/ r.rc # 0,
                                        !.k = @ + 1]
                  /\ spc' = IF loc.k < Len(loc.disks_to_check) THEN "du" ELSE "logs"
                  /\ UNCHANGED <<listing, idx, stats, faults>>
    /\ UNCHANGED mainVars

\* docker logs ... --tail 1000 | grep CacheStatus; stats[node_name] = {...}
TailLogs ==
    /\ spc = "logs"
    /\ \E r \in LogResults :
         /\ stats' = (loc.node_name :>
                         [cache_size   |-> loc.cache_size,
                          object_count |-> loc.object_count,
                          hits         |-> CountLog(r, "HIT"),
                          misses       |-> CountLog(r, "MISS")]) @@ stats
         /\ faults' = (loc.node_name :>
                          [skipped |-> loc.skipped \/ r.rc # 0, raised |-> FALSE]) @@ faults
    /\ idx' = idx + 1
    /\ spc' = "for"
    /\ UNCHANGED <<listing, loc>>
    /\ UNCHANGED mainVars

\* return stats
ReturnStats ==
    /\ spc = "for"
    /\ idx > Len(listing)
    /\ spc' = "returned"
    /\ UNCHANGED <<listing, idx, loc, stats, faults>>
    /\ UNCHANGED mainVars

SamplerNext ==
    \/ DockerPs
    \/ ForContainer
    \/ ListDisks
    \/ DiskUsage
    \/ CountFiles
    \/ TailLogs
    \/ ReturnStats

SamplerSpec == SamplerInit /\ [][SamplerNext]_vars

-----------------------------------------------------------------------------
(* The claim on the cache sampler *)

Sampled(n) == {NodeOf(listing[i]) : i \in 1..n}

====
